---- MODULE Spec2Model ----
(***************************************************************************)
(* Bisection on sorted slices (bisect-rs, src/src/lib.rs).                 *)
(*                                                                         *)
(* The two engines bisect_right_by and bisect_left_by are modelled one     *)
(* loop step at a time over usize arithmetic of width W.  A caller picks a *)
(* slice and a comparator, calls each direction, and may insert the query  *)
(* at a returned index and bisect again.                                   *)
(***************************************************************************)
EXTENDS Integers, Sequences, FiniteSets

(* ----------------------------- bounds ---------------------------------- *)

\* Width in bits of the index type (usize) in the model.
W == 4

\* Longest slice of sized elements the caller builds.
MaxLen == 5

\* Largest element value / key of a sized element.
MaxVal == 3

\* Number of probes of one call that the probe log records.
MaxProbes == 6

(* ------------------------- usize arithmetic ---------------------------- *)

\* usize::MAX
MAX == 2^W - 1

\* isize::MAX, the largest length of a slice whose elements have a size.
ISIZE_MAX == 2^(W-1) - 1

\* Does x + y leave the range of usize?
Overflows(x, y) == x + y > MAX

\* x + y as a build without overflow checks computes it.
WrappingAdd(x, y) == (x + y) % (MAX + 1)

\* The build of the crate: with or without overflow checks.
Builds == BOOLEAN

(* --------------------------- orderings --------------------------------- *)

Less == "Less"
Equal == "Equal"
Greater == "Greater"
Ordering == {Less, Equal, Greater}

\* Ord::cmp on integers.
Cmp(e, x) == IF e < x THEN Less ELSE IF e = x THEN Equal ELSE Greater

\* Key extraction: a projection under which distinct elements share a key.
Key(e) == e \div 2

NoIndex == -1

(* ----------------------------- inputs ---------------------------------- *)

Min(x, y) == IF x < y THEN x ELSE y

\* Cap on the length of a slice of sized elements.
LenCap == Min(MaxLen, ISIZE_MAX)

\* Longest slice of elements of type T.
Capacity(T) == IF T = "unit" THEN MAX ELSE LenCap

SeqsUpTo(S, n) == UNION {[1..k -> S] : k \in 0..n}

IsSorted(s) == \A i \in 1..Len(s) : \A j \in i..Len(s) : s[i] <= s[j]

IsSortedByKey(s) == \A i \in 1..Len(s) : \A j \in i..Len(s) : Key(s[i]) <= Key(s[j])

\* A slice of n zero-sized elements; all of them are the same value.
Units(n) == [i \in 1..n |-> 0]

\* bisect_left(a, x) / bisect_right(a, x): sorted slices and a query value,
\* of sized elements and of zero-sized ones.
ValueInputs ==
    {[T |-> "sized", a |-> s, f |-> [kind |-> "value", x |-> v, part |-> NoIndex]] :
        s \in {t \in SeqsUpTo(1..MaxVal, LenCap) : IsSorted(t)}, v \in 0..(MaxVal+1)}
    \cup {[T |-> "unit", a |-> Units(n), f |-> [kind |-> "value", x |-> 0, part |-> NoIndex]] :
        n \in 0..MAX}

\* bisect_*_by_key(a, b, key): slices sorted by key, and a query key.
KeyInputs ==
    {[T |-> "sized", a |-> s, f |-> [kind |-> "key", x |-> b, part |-> NoIndex]] :
        s \in {t \in SeqsUpTo(2..(2*MaxVal+1), LenCap) : IsSortedByKey(t)},
        b \in 0..(MaxVal+1)}

\* bisect_*_by(a, f): the closure f is described by what it may answer.
\*   "monoRight": Less or Equal below part, Greater from part on
\*   "monoLeft" : Less below part, Equal or Greater from part on
\*   "any"      : any answer at any call
ByInputs ==
    UNION {{[T |-> "unit", a |-> Units(n), f |-> [kind |-> k, x |-> 0, part |-> p]] :
                k \in {"monoRight", "monoLeft"}, p \in 0..n} : n \in 0..MAX}
    \cup {[T |-> "unit", a |-> Units(n), f |-> [kind |-> "any", x |-> 0, part |-> NoIndex]] :
                n \in 0..MAX}

Inputs == ValueInputs \cup KeyInputs \cup ByInputs

(* ------------------------------ state ---------------------------------- *)

VARIABLES
    T,        \* element type of the slice: "sized" or "unit" (zero-sized)
    a,        \* the slice
    f,        \* the comparator closure
    checks,   \* does the build check arithmetic for overflow?
    side,     \* the engine that is running: "right" or "left"
    pc,       \* "idle", "loop", "probe", "panic", "ub"
    low,      \* local of the engine
    high,     \* local of the engine
    mid,      \* local of the engine
    probes,   \* indices handed to the comparator in this call, in order
    res,      \* indices returned for this slice, per direction
    base      \* indices returned for the slice before the last insertion

vars == <<T, a, f, checks, side, pc, low, high, mid, probes, res, base>>

NoResult == [left |-> NoIndex, right |-> NoIndex]

TypeOK ==
    /\ T \in {"sized", "unit"}
    /\ Len(a) \in 0..MAX
    /\ checks \in Builds
    /\ side \in {"right", "left"}
    /\ pc \in {"idle", "loop", "probe", "panic", "ub"}
    /\ low \in 0..MAX /\ high \in 0..MAX /\ mid \in 0..MAX
    /\ Len(probes) <= MaxProbes

Init ==
    /\ \E in \in Inputs : T = in.T /\ a = in.a /\ f = in.f
    /\ checks \in Builds
    /\ side = "right"
    /\ pc = "idle"
    /\ low = 0 /\ high = 0 /\ mid = 0
    /\ probes = <<>>
    /\ res = NoResult
    /\ base = NoResult

(* --------------------------- comparators ------------------------------- *)

\* ByValue with the operands of cmp exchanged.
ByValue_Swapped(k) == Cmp(f.x, k)

\* |k| k.cmp(x), the closure of bisect_right and bisect_left
ByValue(k) == Cmp(k, f.x)

\* |k| f(k).cmp(b), the closure of bisect_right_by_key and bisect_left_by_key
ByKey(k) == Cmp(Key(k), f.x)

\* The answers the comparator may give for the element at index i (from 0).
Answers(i) ==
    CASE f.kind = "value"     -> {ByValue(a[i+1])}
      [] f.kind = "key"       -> {ByKey(a[i+1])}
      [] f.kind = "monoRight" -> IF i < f.part THEN {Less, Equal} ELSE {Greater}
      [] f.kind = "monoLeft"  -> IF i < f.part THEN {Less} ELSE {Equal, Greater}
      [] OTHER                -> Ordering

(* ----------------------------- engines --------------------------------- *)

\* RightGoesUp with Equal in the other arm.
RightGoesUp_Strict(o) == o = Less

\* match arms of bisect_right_by: Less | Equal => low = mid + 1
RightGoesUp(o) == o \in {Less, Equal}

\* LeftGoesUp with Equal in the other arm.
LeftGoesUp_Eq(o) == o \in {Less, Equal}

\* match arms of bisect_left_by: Less => low = mid + 1
LeftGoesUp(o) == o = Less

\* GoesUp with the arms of bisect_right_by in both engines.
GoesUp_OneSided(s, o) == RightGoesUp(o)

\* The arm taken by engine s on answer o.
GoesUp(s, o) == IF s = "right" THEN RightGoesUp(o) ELSE LeftGoesUp(o)

\* let mut high = a.len(); if high == 0 { return 0; } let mut low = 0;
Enter(s) ==
    /\ pc = "idle"
    /\ res[s] = NoIndex
    /\ side' = s
    /\ probes' = <<>>
    /\ IF Len(a) = 0
         THEN /\ res' = [res EXCEPT ![s] = 0]
              /\ UNCHANGED <<pc, low, high, mid>>
         ELSE /\ high' = Len(a)
              /\ low' = 0
              /\ pc' = "loop"
              /\ UNCHANGED <<res, mid>>
    /\ UNCHANGED <<T, a, f, checks, base>>

bisect_right == f.kind = "value" /\ Enter("right")
bisect_right_by_key == f.kind = "key" /\ Enter("right")
bisect_right_by == f.kind \in {"monoRight", "monoLeft", "any"} /\ Enter("right")
bisect_left == f.kind = "value" /\ Enter("left")
bisect_left_by_key == f.kind = "key" /\ Enter("left")
bisect_left_by == f.kind \in {"monoRight", "monoLeft", "any"} /\ Enter("left")

\* while low < high { let mid = (low + high) / 2;
Midpoint ==
    /\ pc = "loop"
    /\ low < high
    /\ IF Overflows(low, high)
         THEN IF checks
                THEN pc' = "panic" /\ mid' = mid
                ELSE pc' = "probe" /\ mid' = WrappingAdd(low, high) \div 2
         ELSE pc' = "probe" /\ mid' = (low + high) \div 2
    /\ UNCHANGED <<T, a, f, checks, side, low, high, probes, res, base>>

\* The probe log: the first MaxProbes probes of the call.
Logged(i) == IF Len(probes) < MaxProbes THEN Append(probes, i) ELSE probes

\* match f(unsafe { a.get_unchecked(mid) }) { ... => low = mid + 1, ... => high = mid }
Probe ==
    /\ pc = "probe"
    /\ IF mid >= Len(a)
         THEN \* out-of-bounds get_unchecked: undefined behaviour
              /\ pc' = "ub"
              /\ UNCHANGED <<low, high, probes>>
         ELSE \E o \in Answers(mid) :
              /\ probes' = Logged(mid)
              /\ IF GoesUp(side, o)
                   THEN /\ high' = high
                        /\ IF Overflows(mid, 1)
                             THEN IF checks
                                    THEN pc' = "panic" /\ low' = low
                                    ELSE pc' = "loop" /\ low' = WrappingAdd(mid, 1)
                             ELSE pc' = "loop" /\ low' = mid + 1
                   ELSE /\ high' = mid
                        /\ low' = low
                        /\ pc' = "loop"
    /\ UNCHANGED <<T, a, f, checks, side, mid, res, base>>

\* the loop is left: low
Return ==
    /\ pc = "loop"
    /\ ~(low < high)
    /\ res' = [res EXCEPT ![side] = low]
    /\ pc' = "idle"
    /\ low' = 0 /\ high' = 0 /\ mid' = 0
    /\ UNCHANGED <<T, a, f, checks, side, probes, base>>

(* ------------------------------ caller --------------------------------- *)

InsertAt(s, i, e) == SubSeq(s, 1, i) \o <<e>> \o SubSeq(s, i+1, Len(s))

\* The caller inserts the query at one of the two returned indices.
Insert ==
    /\ pc = "idle"
    /\ f.kind = "value"
    /\ res.left # NoIndex /\ res.right # NoIndex
    /\ Len(a) < Capacity(T)
    /\ \E i \in {res.left, res.right} : a' = InsertAt(a, i, f.x)
    /\ base' = res
    /\ res' = NoResult
    /\ probes' = <<>>
    /\ UNCHANGED <<T, f, checks, side, pc, low, high, mid>>

Next ==
    \/ bisect_right
    \/ bisect_right_by_key
    \/ bisect_right_by
    \/ bisect_left
    \/ bisect_left_by_key
    \/ bisect_left_by
    \/ Midpoint
    \/ Probe
    \/ Return
    \/ Insert

Spec == Init /\ [][Next]_vars

\* A call that has started keeps running: the engine's steps are taken.
FairSpec == Spec /\ WF_vars(Midpoint) /\ WF_vars(Probe) /\ WF_vars(Return)

(* --------------------------- partition points -------------------------- *)

Indices == 0..(Len(a) - 1)

\* i splits the slice for right bisection: Less or Equal before i, Greater from i on.
IsRightPartition(i) ==
    \A j \in Indices : IF j < i THEN Answers(j) \subseteq {Less, Equal}
                                ELSE Answers(j) = {Greater}

\* i splits the slice for left bisection: Less before i, Equal or Greater from i on.
IsLeftPartition(i) ==
    \A j \in Indices : IF j < i THEN Answers(j) = {Less}
                                ELSE Answers(j) \subseteq {Equal, Greater}

\* The comparator's answers form the two groups right (left) bisection needs.
RightOrdered == \E i \in 0..Len(a) : IsRightPartition(i)
LeftOrdered == \E i \in 0..Len(a) : IsLeftPartition(i)

\* The call that is running, if any.
Running == pc \in {"loop", "probe"}

(* ------------------------------- C1 ------------------------------------ *)

\* C1: when the comparator's answers form a {Less, Equal} group followed by a
\* {Greater} group, the index that right bisection returns (bisect_right_by,
\* and bisect_right and bisect_right_by_key through their closures) is the
\* one index in [0, n] that splits the slice into these two groups.
C1_RightPartitionPoint ==
    (res.right # NoIndex /\ RightOrdered) =>
        /\ res.right \in 0..Len(a)
        /\ IsRightPartition(res.right)
        /\ \A i \in 0..Len(a) : IsRightPartition(i) => i = res.right

\* A right bisection by key has returned an index inside a slice with a run
\* of elements whose key equals the query key.
C1_Witness ==
    /\ f.kind = "key"
    /\ res.right \in 2..(Len(a) - 1)
    /\ ByKey(a[res.right]) = Equal
    /\ ByKey(a[res.right - 1]) = Equal
    /\ a[res.right] < a[res.right - 1]

(* ------------------------------- C2 ------------------------------------ *)

\* C2: when the comparator's answers form a {Less} group followed by an
\* {Equal, Greater} group, the index that left bisection returns
\* (bisect_left_by, and bisect_left and bisect_left_by_key through their
\* closures) is the one index in [0, n] that splits the slice into these two
\* groups.
C2_LeftPartitionPoint ==
    (res.left # NoIndex /\ LeftOrdered) =>
        /\ res.left \in 0..Len(a)
        /\ IsLeftPartition(res.left)
        /\ \A i \in 0..Len(a) : IsLeftPartition(i) => i = res.left

\* A left bisection with a closure has returned an index inside a slice
\* longer than isize::MAX.
C2_Witness ==
    /\ f.kind = "monoLeft"
    /\ Len(a) > ISIZE_MAX + 1
    /\ res.left \in 1..(Len(a) - 1)
    /\ res.left = f.part

(* ------------------------------- C3 ------------------------------------ *)

Occurrences == {i \in Indices : a[i+1] = f.x}

\* C3: for a sorted slice S and a value x, with l = bisect_left(S, x) and
\* r = bisect_right(S, x): l <= r, the indices that hold x are exactly those
\* in [l, r), so r - l is the number of occurrences of x, and l = r when x
\* does not occur.
C3_EqualRange ==
    (f.kind = "value" /\ res.left # NoIndex /\ res.right # NoIndex) =>
        /\ res.left <= res.right
        /\ Occurrences = {i \in Indices : res.left <= i /\ i < res.right}
        /\ res.right - res.left = Cardinality(Occurrences)
        /\ (Occurrences = {} => res.left = res.right)

\* Both directions have returned for a query that occurs more than once,
\* with smaller elements before it and larger ones after it.
C3_Witness ==
    /\ f.kind = "value"
    /\ base = NoResult
    /\ res.left >= 1
    /\ res.right >= res.left + 2
    /\ res.right < Len(a)

(* ------------------------------- C4 ------------------------------------ *)

\* C4: after x has been inserted into a sorted slice S at bisect_left(S, x) or
\* at bisect_right(S, x), the slice is still sorted, and on the new slice
\* bisect_left returns the old left index and bisect_right the old right
\* index plus one.
C4_InsertRoundTrip ==
    (base # NoResult) =>
        /\ IsSorted(a)
        /\ (res.left # NoIndex => res.left = base.left)
        /\ (res.right # NoIndex => res.right = base.right + 1)

\* x was inserted into a slice that already held it, between smaller and
\* larger elements, and both directions have returned on the new slice.
C4_Witness ==
    /\ base # NoResult
    /\ base.left >= 1
    /\ base.left < base.right
    /\ res.left # NoIndex
    /\ res.right # NoIndex
    /\ res.right < Len(a)

(* ------------------------------- C5 ------------------------------------ *)

\* The slice has usize::MAX elements and each compares Less or Equal.
AllLessOrEqualAtMax ==
    /\ Len(a) = MAX
    /\ \A j \in Indices : Answers(j) \subseteq {Less, Equal}

\* C5: right bisection on a slice of usize::MAX elements that all compare
\* Less or Equal ends in an arithmetic-overflow panic, and never returns an
\* index.
C5_OverflowFailsLoudly ==
    /\ [](AllLessOrEqualAtMax => res.right = NoIndex)
    /\ ((AllLessOrEqualAtMax /\ side = "right" /\ Running) ~> (pc = "panic"))

(* ------------------------------- C6 ------------------------------------ *)

\* The next step of the running call adds two numbers whose sum leaves usize.
OverflowPending ==
    \/ pc = "loop" /\ low < high /\ Overflows(low, high)
    \/ pc = "probe" /\ mid < Len(a) /\ Overflows(mid, 1)
         /\ \E o \in Answers(mid) : GoesUp(side, o)

\* C6: an addition overflows only in right bisection, only on a slice of
\* usize::MAX elements whose last element compares Less or Equal; left
\* bisection and right bisection on shorter slices never overflow.
C6_OverflowOnlyRightAtMax ==
    OverflowPending =>
        /\ side = "right"
        /\ Len(a) = MAX
        /\ \E o \in Answers(Len(a) - 1) : o \in {Less, Equal}

(* ------------------------------- C7 ------------------------------------ *)

\* C7: for any comparator, in every loop state 0 <= low <= high <= n, every
\* probed index has low <= mid < high (so the unchecked access is in bounds),
\* and a returned index lies in [0, n].
C7_BoundsValid ==
    /\ pc # "ub"
    /\ Running => (0 <= low /\ low <= high /\ high <= Len(a))
    /\ pc = "probe" => (low <= mid /\ mid < high /\ mid < Len(a))
    /\ res.left \in {NoIndex} \cup (0..Len(a))
    /\ res.right \in {NoIndex} \cup (0..Len(a))

(* ------------------------------- C8 ------------------------------------ *)

\* C8: every call, with any comparator, leaves the loop and finishes, and
\* high - low strictly decreases on every loop iteration.
C8_Terminates ==
    /\ (Running ~> (pc \in {"idle", "panic"}))
    /\ [][(pc = "probe" /\ pc' = "loop") => (high' - low' < high - low)]_vars

(* ------------------------------- C9 ------------------------------------ *)

\* C9: in every loop iteration low + high fits in usize, and mid is the floor
\* of the true midpoint.
C9_MidpointFits ==
    /\ (pc = "loop" /\ low < high) => low + high <= MAX
    /\ pc = "probe" => mid = (low + high) \div 2

(* ------------------------------- C10 ----------------------------------- *)

\* The least k with 2^k >= m.
CeilLog2(m) == CHOOSE k \in 0..(W + 1) : 2^k >= m /\ \A j \in 0..(k - 1) : 2^j < m

\* C10: in one call no index is handed to the comparator twice, and the
\* comparator is called at most ceil(log2(n + 1)) times.
C10_ProbeCount ==
    Running =>
        /\ Len(probes) <= CeilLog2(Len(a) + 1)
        /\ \A i \in 1..Len(probes) : \A j \in 1..Len(probes) :
               probes[i] = probes[j] => i = j

====
